---------------------------- MODULE Spec2Model ----------------------------
(***************************************************************************)
(* NeuroBin cache: a key -> Storage map (src/cache/mod.rs) kept together   *)
(* with an LRU order queue (src/cache/lru.rs); values are shaped buffers   *)
(* (src/cache/storage.rs).                                                 *)
(***************************************************************************)
EXTENDS Naturals, Sequences, FiniteSets, TLC

VARIABLES map, lru, capacity, last, hist, recording

vars == <<map, lru, capacity, last, hist, recording>>

(* ------------------------------ bounds -------------------------------- *)
NumKeys == 3
MaxCapacity == 2
NumElems == 2
MaxDim == 1

Keys == 1..NumKeys
Elems == 42..(41 + NumElems)
Extent == 2

(* ------------------------------ helpers ------------------------------- *)
RECURSIVE Prod(_)
Prod(s) == IF s = <<>> THEN 1 ELSE Head(s) * Prod(Tail(s))

RECURSIVE Without(_, _)
Without(s, k) ==
  IF s = <<>> THEN <<>>
  ELSE IF Head(s) = k THEN Without(Tail(s), k)
  ELSE <<Head(s)>> \o Without(Tail(s), k)

Range(s) == {s[i] : i \in 1..Len(s)}

(* ArrayD<T>: a shape and its elements in row-major order.                *)
Shapes == UNION {[1..d -> {Extent}] : d \in 0..MaxDim}
Values == {[shape |-> s, data |-> [i \in 1..Prod(s) |-> e + (i - 1)]] :
             s \in Shapes, e \in Elems}

(* ------------------------- storage.rs: Storage ------------------------ *)
StorageNew(shape) == [shape |-> shape, data |-> [i \in 1..Prod(shape) |-> 0]]

(* SliceInfo::in_ndim: every element but NewAxis consumes one input axis. *)
InNdim(indices) == Cardinality({i \in 1..Len(indices) : indices[i] # "NewAxis"})

(* slice_mut asserts in_ndim = ndim (ok = FALSE is its panic); assign     *)
(* then copies the values into the view. Cache::set builds the storage    *)
(* from the shape of the values, so the two shapes agree and assign never *)
(* broadcasts.                                                            *)
SetSubarrayNoAssign(storage, indices, values) ==
  IF InNdim(indices) # Len(storage.shape)
  THEN [ok |-> FALSE, storage |-> storage]
  ELSE [ok |-> TRUE, storage |-> storage]

SetSubarray(storage, indices, values) ==
  IF InNdim(indices) # Len(storage.shape)
  THEN [ok |-> FALSE, storage |-> storage]
  ELSE [ok |-> TRUE, storage |-> [shape |-> storage.shape, data |-> values.data]]

GetData(storage) == [shape |-> storage.shape, data |-> storage.data]

(* --------------------------- lru.rs: LruCache ------------------------- *)
LruNew(cap) == [order |-> <<>>, capacity |-> cap]

LruAccessNoRepush(l, key) ==
  IF key \in Range(l.order) THEN [l EXCEPT !.order = Without(l.order, key)]
  ELSE IF Len(l.order) = l.capacity
       THEN [l EXCEPT !.order = Append(SubSeq(l.order, 2, Len(l.order)), key)]
       ELSE [l EXCEPT !.order = Append(l.order, key)]

LruAccessDup(l, key) ==
  IF Len(l.order) = l.capacity /\ key \notin Range(l.order)
  THEN [l EXCEPT !.order = Append(SubSeq(l.order, 2, Len(l.order)), key)]
  ELSE [l EXCEPT !.order = Append(l.order, key)]

LruAccessPopWhenFull(l, key) ==
  IF Len(l.order) = l.capacity
  THEN [l EXCEPT !.order = Append(Without(SubSeq(l.order, 2, Len(l.order)), key), key)]
  ELSE [l EXCEPT !.order = Append(Without(l.order, key), key)]

LruAccess(l, key) ==
  IF key \in Range(l.order)
  THEN [l EXCEPT !.order = Append(Without(l.order, key), key)]
  ELSE IF Len(l.order) = l.capacity
       THEN [l EXCEPT !.order = Append(SubSeq(l.order, 2, Len(l.order)), key)]
       ELSE [l EXCEPT !.order = Append(l.order, key)]

(* Option<Rc<K>> is a sequence of length at most one.                     *)
LruEvictNewest(l) ==
  IF l.order = <<>> THEN [key |-> <<>>, lru |-> l]
  ELSE [key |-> <<l.order[Len(l.order)]>>,
        lru |-> [l EXCEPT !.order = SubSeq(l.order, 1, Len(l.order) - 1)]]

LruEvictSecond(l) ==
  IF l.order = <<>> THEN [key |-> <<>>, lru |-> l]
  ELSE IF Len(l.order) = 1 THEN [key |-> <<Head(l.order)>>, lru |-> [l EXCEPT !.order = <<>>]]
  ELSE [key |-> <<l.order[2]>>,
        lru |-> [l EXCEPT !.order = <<Head(l.order)>> \o SubSeq(l.order, 3, Len(l.order))]]

LruEvictPeek(l) ==
  IF l.order = <<>> THEN [key |-> <<>>, lru |-> l]
  ELSE [key |-> <<Head(l.order)>>, lru |-> l]

LruEvict(l) ==
  IF l.order = <<>> THEN [key |-> <<>>, lru |-> l]
  ELSE [key |-> <<Head(l.order)>>, lru |-> [l EXCEPT !.order = Tail(l.order)]]

LruRemoveFront(l, key) ==
  IF key \in Range(l.order)
  THEN [found |-> TRUE, lru |-> [l EXCEPT !.order = Tail(l.order)]]
  ELSE [found |-> FALSE, lru |-> l]

LruRemove(l, key) ==
  IF key \in Range(l.order)
  THEN [found |-> TRUE, lru |-> [l EXCEPT !.order = Without(l.order, key)]]
  ELSE [found |-> FALSE, lru |-> l]

(* ----------------------------- mod.rs: Cache -------------------------- *)
ErrFull == "Cache is full and unable to evict items"
ErrNotFound == "Key not found in cache"

MapRemove(m, k) == [x \in DOMAIN m \ {k} |-> m[x]]
MapInsert(m, k, s) == [x \in DOMAIN m \cup {k} |-> IF x = k THEN s ELSE m[x]]

NoView == [shape |-> <<>>, data |-> <<>>]

NewAxisIndices(n) == [i \in 1..n |-> "NewAxis"]

(* lines 64-66 of set *)
Install(m, l, key, storage) ==
  [res |-> "Ok", map |-> MapInsert(m, key, storage), lru |-> LruAccess(l, key)]

CacheSetNoEvict(m, l, cap, key, value) ==
  LET w == SetSubarray(StorageNew(value.shape), NewAxisIndices(Len(value.shape)), value)
  IN IF ~w.ok THEN [res |-> "Panic", map |-> m, lru |-> l]
     ELSE Install(m, l, key, w.storage)

CacheSetInsertFirst(m, l, cap, key, value) ==
  LET w == SetSubarray(StorageNew(value.shape), NewAxisIndices(Len(value.shape)), value)
      m1 == MapInsert(m, key, w.storage)
  IN IF ~w.ok THEN [res |-> "Panic", map |-> m, lru |-> l]
     ELSE IF Cardinality(DOMAIN m) >= cap
          THEN LET ev == LruEvict(l)
               IN IF ev.key # <<>>
                  THEN Install(MapRemove(m, ev.key[1]), ev.lru, key, w.storage)
                  ELSE [res |-> ErrFull, map |-> m1, lru |-> ev.lru]
          ELSE Install(m, l, key, w.storage)

CacheSetEvictAfter(m, l, cap, key, value) ==
  LET w == SetSubarray(StorageNew(value.shape), NewAxisIndices(Len(value.shape)), value)
      r == Install(m, l, key, w.storage)
  IN IF ~w.ok THEN [res |-> "Panic", map |-> m, lru |-> l]
     ELSE IF Cardinality(DOMAIN r.map) > cap
          THEN LET ev == LruEvict(r.lru)
               IN IF ev.key # <<>>
                  THEN [res |-> "Ok", map |-> MapRemove(r.map, ev.key[1]), lru |-> ev.lru]
                  ELSE [res |-> ErrFull, map |-> m, lru |-> l]
          ELSE r

CacheSetStrict(m, l, cap, key, value) ==
  LET w == SetSubarray(StorageNew(value.shape), NewAxisIndices(Len(value.shape)), value)
  IN IF ~w.ok THEN [res |-> "Panic", map |-> m, lru |-> l]
     ELSE IF Cardinality(DOMAIN m) > cap
          THEN LET ev == LruEvict(l)
               IN IF ev.key # <<>>
                  THEN Install(MapRemove(m, ev.key[1]), ev.lru, key, w.storage)
                  ELSE [res |-> ErrFull, map |-> m, lru |-> ev.lru]
          ELSE Install(m, l, key, w.storage)

CacheSet(m, l, cap, key, value) ==
  LET w == SetSubarray(StorageNew(value.shape), NewAxisIndices(Len(value.shape)), value)
  IN IF ~w.ok THEN [res |-> "Panic", map |-> m, lru |-> l]
     ELSE IF Cardinality(DOMAIN m) >= cap
          THEN LET ev == LruEvict(l)
               IN IF ev.key # <<>>
                  THEN Install(MapRemove(m, ev.key[1]), ev.lru, key, w.storage)
                  ELSE [res |-> ErrFull, map |-> m, lru |-> ev.lru]
          ELSE Install(m, l, key, w.storage)

CacheGetNoTouch(m, l, key) ==
  IF key \in DOMAIN m
  THEN [res |-> "Ok", view |-> GetData(m[key]), lru |-> l]
  ELSE [res |-> ErrNotFound, view |-> NoView, lru |-> l]

CacheGetTouchFirst(m, l, key) ==
  IF key \in DOMAIN m
  THEN [res |-> "Ok", view |-> GetData(m[key]), lru |-> LruAccess(l, key)]
  ELSE [res |-> ErrNotFound, view |-> NoView, lru |-> LruAccess(l, key)]

CacheGet(m, l, key) ==
  IF key \in DOMAIN m
  THEN [res |-> "Ok", view |-> GetData(m[key]), lru |-> LruAccess(l, key)]
  ELSE [res |-> ErrNotFound, view |-> NoView, lru |-> l]

CacheDeleteAlwaysOk(m, l, key) ==
  [res |-> "Ok", map |-> MapRemove(m, key), lru |-> LruRemove(l, key).lru]

CacheDeleteKeepTracker(m, l, key) ==
  IF key \in DOMAIN m
  THEN [res |-> "Ok", map |-> MapRemove(m, key), lru |-> l]
  ELSE [res |-> ErrNotFound, map |-> m, lru |-> l]

CacheDelete(m, l, key) ==
  IF key \in DOMAIN m
  THEN [res |-> "Ok", map |-> MapRemove(m, key), lru |-> LruRemove(l, key).lru]
  ELSE [res |-> ErrNotFound, map |-> m, lru |-> l]

(* ------------------------------ the calls ----------------------------- *)
(* last: the call that produced the current state, with what it returned. *)
NoCall == [op |-> "new", key |-> 0, val |-> NoView, res |-> "Ok", view |-> NoView]

(* hist: the calls since Cache::new, kept while they form a scenario of   *)
(* successful set calls on pairwise distinct keys and successful get      *)
(* calls, four calls or capacity + 1 of them at most.                     *)
HistLimit == IF capacity + 1 > 4 THEN capacity + 1 ELSE 4

SetKeys(h) == {h[i].key : i \in {j \in 1..Len(h) : h[j].op = "set"}}

Recordable(call) ==
  /\ recording
  /\ call.res = "Ok"
  /\ Len(hist) < HistLimit
  /\ \/ call.op = "get"
     \/ call.op = "set" /\ call.key \notin SetKeys(hist)

Record(call) ==
  IF Recordable(call)
  THEN /\ hist' = Append(hist, [op |-> call.op, key |-> call.key, val |-> call.val])
       /\ recording' = TRUE
  ELSE /\ hist' = <<>>
       /\ recording' = FALSE

(* A panic unwinds out of the call: nothing runs on the cache afterwards. *)
Panicked == last.res = "Panic"

Init ==
  /\ capacity \in 0..MaxCapacity
  /\ map = <<>>
  /\ lru = LruNew(capacity)
  /\ last = NoCall
  /\ hist = <<>>
  /\ recording = TRUE

Set(key, value) ==
  /\ ~Panicked
  /\ LET r == CacheSet(map, lru, capacity, key, value)
         call == [op |-> "set", key |-> key, val |-> value, res |-> r.res, view |-> NoView]
     IN /\ map' = r.map
        /\ lru' = r.lru
        /\ last' = call
        /\ Record(call)
  /\ UNCHANGED capacity

Get(key) ==
  /\ ~Panicked
  /\ LET r == CacheGet(map, lru, key)
         call == [op |-> "get", key |-> key, val |-> NoView, res |-> r.res, view |-> r.view]
     IN /\ lru' = r.lru
        /\ last' = call
        /\ Record(call)
  /\ UNCHANGED <<map, capacity>>

Delete(key) ==
  /\ ~Panicked
  /\ LET r == CacheDelete(map, lru, key)
         call == [op |-> "delete", key |-> key, val |-> NoView, res |-> r.res, view |-> NoView]
     IN /\ map' = r.map
        /\ lru' = r.lru
        /\ last' = call
        /\ Record(call)
  /\ UNCHANGED capacity

Next ==
  \/ \E k \in Keys, v \in Values : Set(k, v)
  \/ \E k \in Keys : Get(k)
  \/ \E k \in Keys : Delete(k)

Spec == Init /\ [][Next]_vars

(* ------------------------------ the claims ---------------------------- *)
Size == Cardinality(DOMAIN map)

(* C1: for every capacity (0 included) and after any sequence of set, get *)
(* and delete calls, the keys of the mapping are the keys of the tracker, *)
(* the two have the same size, and the mapping holds at most capacity     *)
(* entries.                                                               *)
C1_MapTrackerAgree ==
  /\ DOMAIN map = Range(lru.order)
  /\ Size = Len(lru.order)
  /\ Size <= capacity

C1_Witness ==
  /\ capacity = MaxCapacity
  /\ Size = capacity
  /\ last.op = "set"
  /\ last.res = "Ok"
  /\ ~recording

(* C2: in a cache of capacity >= 1, a set(k, v) that returns Ok followed  *)
(* at once by get(k) gives Ok with a view equal to v.                     *)
C2_RoundTrip ==
  [][(/\ last.op = "set" /\ last.res = "Ok"
      /\ last'.op = "get" /\ last'.key = last.key)
     => (last'.res = "Ok" /\ last'.view = last.val)]_vars

C2_Witness ==
  /\ capacity >= 1
  /\ Len(hist) = 2
  /\ hist[1].op = "set" /\ hist[2].op = "get" /\ hist[2].key = hist[1].key
  /\ last.res = "Ok"
  /\ last.view = hist[1].val

OnlySets(h) == \A i \in 1..Len(h) : h[i].op = "set"

DistinctKeys(h) == \A i, j \in 1..Len(h) : h[i].key = h[j].key => i = j

C3_Run ==
  /\ capacity >= 1
  /\ recording
  /\ Len(hist) = capacity + 1
  /\ OnlySets(hist)
  /\ DistinctKeys(hist)

(* C3: with capacity n >= 1, after n+1 successive set calls on pairwise   *)
(* distinct keys k0..kn from the empty cache (no get or delete between),  *)
(* get(k0) is not-found and each of k1..kn is present with its value.     *)
C3_EvictionOrder ==
  C3_Run =>
    /\ CacheGet(map, lru, hist[1].key).res = ErrNotFound
    /\ \A i \in 2..Len(hist) :
         /\ CacheGet(map, lru, hist[i].key).res = "Ok"
         /\ CacheGet(map, lru, hist[i].key).view = hist[i].val

C3_Witness == C3_Run /\ capacity = MaxCapacity

C4_Scenario ==
  /\ capacity = 2
  /\ recording
  /\ Len(hist) = 4
  /\ hist[1].op = "set" /\ hist[2].op = "set" /\ hist[3].op = "get" /\ hist[4].op = "set"
  /\ hist[3].key = hist[1].key
  /\ Cardinality({hist[1].key, hist[2].key, hist[4].key}) = 3

C4_GetIsNewest ==
  (last.op = "get" /\ last.res = "Ok") =>
    (lru.order # <<>> /\ lru.order[Len(lru.order)] = last.key)

C4_ScenarioEvictsK1 ==
  C4_Scenario => DOMAIN map = {hist[1].key, hist[4].key}

C4_GetProtects ==
  (/\ capacity >= 2 /\ Size = capacity
   /\ last.op = "get" /\ last.res = "Ok"
   /\ last'.op = "set" /\ last'.res = "Ok" /\ last'.key \notin DOMAIN map)
  => last.key \in DOMAIN map'

(* C4: a successful get(k) makes k the most recently used key; with       *)
(* capacity 2, set(k0); set(k1); get(k0); set(k2) on distinct keys evicts *)
(* k1 and keeps k0 and k2; and with capacity >= 2 and a full cache, a     *)
(* get(k) followed by a set of a new key never evicts k.                  *)
C4_RecencyUpdate ==
  /\ [](C4_GetIsNewest /\ C4_ScenarioEvictsK1)
  /\ [][C4_GetProtects]_vars

C4_Witness == C4_Scenario /\ hist[2].key \notin DOMAIN map

(* C5: set(k, v) on a key k already present removes no key: the keys      *)
(* present after the call are the keys present before it, even when the   *)
(* mapping is at capacity.                                                *)
C5_SetExistingKeepsKeys ==
  [][(last'.op = "set" /\ last'.res = "Ok" /\ last'.key \in DOMAIN map)
     => DOMAIN map' = DOMAIN map]_vars

C8_DeleteAbsent ==
  [][(last'.op = "delete" /\ last'.key \notin DOMAIN map)
     => (last'.res = ErrNotFound /\ map' = map /\ lru' = lru)]_vars

C8_Witness ==
  /\ last.op = "delete"
  /\ last.res = ErrNotFound
  /\ Size = capacity
  /\ capacity >= 1

RemovedAt(before, after, k) ==
  \E i \in 1..Len(before) :
    /\ before[i] = k
    /\ after = SubSeq(before, 1, i - 1) \o SubSeq(before, i + 1, Len(before))

C9_DeleteRemoves ==
  (last'.op = "delete" /\ last'.key \in DOMAIN map) =>
    /\ last'.res = "Ok"
    /\ DOMAIN map' = DOMAIN map \ {last'.key}
    /\ \A x \in DOMAIN map' : map'[x] = map[x]
    /\ RemovedAt(lru.order, lru'.order, last'.key)
    /\ last'.key \notin Range(lru'.order)

C9_AbsentUntilSet ==
  \A k \in Keys : k \notin DOMAIN map =>
    /\ (last'.op = "get" /\ last'.key = k) => last'.res = ErrNotFound
    /\ k \in DOMAIN map' => (last'.op = "set" /\ last'.key = k)

(* C9: delete(k) on a present key returns Ok and removes k from mapping   *)
(* and tracker; every other key keeps its value and its relative order;   *)
(* k then stays absent, and get(k) not-found, until a set(k, _).          *)
C9_DeletePresent == [][C9_DeleteRemoves /\ C9_AbsentUntilSet]_vars

C9_Witness ==
  /\ last.op = "delete"
  /\ last.res = "Ok"
  /\ Size >= 1

(* C10: get(k) on an absent key returns not-found and touches nothing:    *)
(* the tracker order and the mapping stay as they were.                   *)
C10_GetAbsent ==
  [][(last'.op = "get" /\ last'.key \notin DOMAIN map)
     => (last'.res = ErrNotFound /\ map' = map /\ lru' = lru)]_vars

C10_Witness ==
  /\ last.op = "get"
  /\ last.res = ErrNotFound
  /\ Size = capacity
  /\ capacity >= 1

C11_Appears ==
  \A k \in Keys : (k \notin DOMAIN map /\ k \in DOMAIN map') =>
    (last'.op = "set" /\ last'.key = k /\ last'.res = "Ok")

C11_Disappears ==
  \A k \in Keys : (k \in DOMAIN map /\ k \notin DOMAIN map') =>
    \/ last'.op = "delete" /\ last'.key = k /\ last'.res = "Ok"
    \/ /\ last'.op = "set" /\ last'.key # k /\ last'.res = "Ok"
       /\ LruEvict(lru).key = <<k>>

C11_GetKeepsPresence == last'.op = "get" => DOMAIN map' = DOMAIN map

C11_SetInstalls ==
  (last'.op = "set" /\ last'.res = "Ok") => last'.key \in DOMAIN map'

(* C11: a key becomes present only by a successful set on it; it becomes  *)
(* absent only by delete on it or as the eviction victim of a set on      *)
(* another key; get never changes presence; right after a successful      *)
(* set(k, _) the key k is present.                                        *)
C11_KeyStateMachine ==
  [][C11_Appears /\ C11_Disappears /\ C11_GetKeepsPresence /\ C11_SetInstalls]_vars

C11_Witness ==
  /\ capacity = 1
  /\ recording
  /\ Len(hist) = 3
  /\ OnlySets(hist)
  /\ DOMAIN map = {hist[3].key}

Removed == DOMAIN map \ DOMAIN map'

(* Filter(s, S): the elements of s that are in S, in the order of s.      *)
RECURSIVE Filter(_, _)
Filter(s, S) ==
  IF s = <<>> THEN <<>>
  ELSE IF Head(s) \in S THEN <<Head(s)>> \o Filter(Tail(s), S)
  ELSE Filter(Tail(s), S)

C13_VictimIsFront ==
  last'.op = "set" =>
    /\ Cardinality(Removed) <= 1
    /\ Removed # {} => (lru.order # <<>> /\ Removed = {lru.order[1]})

(* The tracker order is the order of last touch: a successful set or get  *)
(* puts its key last and keeps the other remaining keys in order.         *)
C13_TouchOrder ==
  (last'.op \in {"set", "get"} /\ last'.res = "Ok") =>
    /\ lru'.order # <<>>
    /\ lru'.order[Len(lru'.order)] = last'.key
    /\ Filter(lru'.order, Keys \ {last'.key})
         = Filter(lru.order, Range(lru'.order) \ {last'.key})

(* C13: whenever a set call removes a key from the mapping, that key is   *)
(* the least recently set or got of the keys present before the call (the *)
(* front of the tracker), and a set call removes at most one key.         *)
C13_LruVictim == [][C13_VictimIsFront /\ C13_TouchOrder]_vars

C13_Witness ==
  /\ capacity = 2
  /\ recording
  /\ Len(hist) = 4
  /\ hist[1].op = "set" /\ hist[2].op = "set" /\ hist[3].op = "get" /\ hist[4].op = "set"
  /\ hist[3].key = hist[2].key
  /\ hist[1].key \notin DOMAIN map

(* ------------------- the tracker on its own (lru.rs) ------------------ *)
(* LruCache::new(capacity) followed by any access, evict and remove       *)
(* calls, as the tests of lru.rs drive it. last holds the call and what   *)
(* it returned: Some(key)/None for evict, true/false for remove.          *)
LruCall(op, key, res) ==
  [op |-> op, key |-> key, val |-> NoView, res |-> res, view |-> NoView]

LruInit ==
  /\ capacity \in 0..MaxCapacity
  /\ lru = LruNew(capacity)
  /\ map = <<>>
  /\ last = NoCall
  /\ hist = <<>>
  /\ recording = FALSE

AccessCall(key) ==
  /\ lru' = LruAccess(lru, key)
  /\ last' = LruCall("access", key, "Ok")
  /\ UNCHANGED <<map, capacity, hist, recording>>

EvictCall ==
  /\ LET ev == LruEvict(lru)
     IN /\ lru' = ev.lru
        /\ last' = IF ev.key = <<>> THEN LruCall("evict", 0, "None")
                   ELSE LruCall("evict", ev.key[1], "Some")
  /\ UNCHANGED <<map, capacity, hist, recording>>

RemoveCall(key) ==
  /\ LET rm == LruRemove(lru, key)
     IN /\ lru' = rm.lru
        /\ last' = LruCall("remove", key, IF rm.found THEN "true" ELSE "false")
  /\ UNCHANGED <<map, capacity, hist, recording>>

LruNext ==
  \/ \E k \in Keys : AccessCall(k)
  \/ EvictCall
  \/ \E k \in Keys : RemoveCall(k)

SpecLru == LruInit /\ [][LruNext]_vars

(* C14: the tracker never holds more than capacity keys, for every        *)
(* capacity given to LruCache::new (0 included) and after any sequence of *)
(* access, evict and remove calls.                                        *)
C14_TrackerBounded == Len(lru.order) <= lru.capacity

NoDup(s) == \A i, j \in 1..Len(s) : s[i] = s[j] => i = j

C15_AccessOrder ==
  last'.op = "access" =>
    /\ lru'.order # <<>>
    /\ lru'.order[Len(lru'.order)] = last'.key
    /\ Filter(lru'.order, Keys \ {last'.key})
         = Filter(lru.order, Range(lru'.order) \ {last'.key})
    /\ Cardinality(Range(lru.order) \ Range(lru'.order)) <= 1

(* C15: after any sequence of access, evict and remove calls each key is  *)
(* at most once in the order queue; access(k) leaves k at the newest end  *)
(* and keeps the relative order of the other keys, a key evicted by that  *)
(* access aside.                                                          *)
C15_TrackerOrdering == []NoDup(lru.order) /\ [][C15_AccessOrder]_vars

C15_Witness ==
  /\ last.op = "access"
  /\ Len(lru.order) = 2
  /\ lru.capacity = 2
  /\ lru.order[2] = last.key

C19_Evict ==
  last'.op = "evict" =>
    IF lru.order # <<>>
    THEN /\ last'.res = "Some"
         /\ last'.key = lru.order[1]
         /\ lru'.order = SubSeq(lru.order, 2, Len(lru.order))
    ELSE /\ last'.res = "None"
         /\ lru'.order = <<>>

C19_Remove ==
  last'.op = "remove" =>
    IF \E i \in 1..Len(lru.order) : lru.order[i] = last'.key
    THEN /\ last'.res = "true"
         /\ RemovedAt(lru.order, lru'.order, last'.key)
         /\ last'.key \notin Range(lru'.order)
    ELSE /\ last'.res = "false"
         /\ lru'.order = lru.order

(* C19: evict on a non-empty tracker removes and returns the oldest key   *)
(* and on an empty one returns None and leaves it empty; remove(k)        *)
(* removes k and returns true when k is present, and returns false and    *)
(* leaves the queue as it was when k is absent.                           *)
C19_TrackerRemoval == [][C19_Evict /\ C19_Remove]_vars

C19_Witness ==
  /\ last.op = "remove"
  /\ last.res = "true"
  /\ lru.order # <<>>

C16_GetReadsStored ==
  (last'.op = "get" /\ last'.key \in DOMAIN map) =>
    (last'.res = "Ok" /\ last'.view = GetData(map[last'.key]))

C16_SetStores ==
  (last'.op = "set" /\ last'.res = "Ok") =>
    (last'.key \in DOMAIN map' /\ GetData(map'[last'.key]) = last'.val)

C16_SetExistingKeepsSize ==
  (last'.op = "set" /\ last'.res = "Ok" /\ last'.key \in DOMAIN map) =>
    Cardinality(DOMAIN map') = Cardinality(DOMAIN map)

C16_OtherKeysKeepValue ==
  \A k \in DOMAIN map \cap DOMAIN map' :
    (last'.op # "set" \/ last'.key # k \/ last'.res # "Ok") => map'[k] = map[k]

(* C16: get(k) on a present key returns the value of the latest           *)
(* successful set(k, _); a set on an existing key replaces its value      *)
(* without changing the size of the mapping; no call on another key       *)
(* changes the value stored for k while k stays present.                  *)
C16_LastWriteWins ==
  [][/\ C16_GetReadsStored
     /\ C16_SetStores
     /\ C16_SetExistingKeepsSize
     /\ C16_OtherKeysKeepValue]_vars

C17_GetFrame ==
  (last'.op = "get" /\ last'.res = "Ok") =>
    /\ map' = map
    /\ Len(lru'.order) = Len(lru.order)
    /\ Range(lru'.order) = Range(lru.order)
    /\ Filter(lru'.order, Keys \ {last'.key}) = Filter(lru.order, Keys \ {last'.key})

(* C17: a successful get(k) changes only the recency of k: the keys and   *)
(* values of the mapping, the size of the tracker and the relative order  *)
(* of the other keys stay as they were; get never evicts.                 *)
C17_GetOnlyTouches == [][C17_GetFrame]_vars

C17_Witness ==
  /\ capacity = 2
  /\ recording
  /\ Len(hist) = 3
  /\ hist[1].op = "set" /\ hist[2].op = "set" /\ hist[3].op = "get"
  /\ hist[3].key = hist[1].key
  /\ lru.order = <<hist[2].key, hist[1].key>>

(* C18: for a value of any number of dimensions d >= 0 the region         *)
(* descriptor built by set consumes all d dimensions of the new buffer,   *)
(* the region write is accepted and the stored buffer equals the value:   *)
(* set does not abort.                                                    *)
C18_FullExtentWrite ==
  last.op = "set" =>
    /\ InNdim(NewAxisIndices(Len(last.val.shape))) = Len(last.val.shape)
    /\ last.res # "Panic"
    /\ last.res = "Ok" => GetData(map[last.key]) = last.val

(* The tracker as Cache::set hands it to access (mod.rs:55-64): after the *)
(* evict when the mapping is at capacity, untouched otherwise.            *)
SetAccessLru(m, l, cap) ==
  IF Cardinality(DOMAIN m) >= cap THEN LruEvict(l).lru ELSE l

(* access takes its own eviction branch: key absent and queue full.       *)
AccessEvicts(l, key) == key \notin Range(l.order) /\ Len(l.order) = l.capacity

C20_AccessNeverEvicts ==
  capacity >= 1 =>
    /\ \A k \in Keys : ~AccessEvicts(SetAccessLru(map, lru, capacity), k)
    /\ \A k \in DOMAIN map : ~AccessEvicts(lru, k)

C20_LeavesPaired ==
  LET gone == Range(lru.order) \ Range(lru'.order)
  IN /\ gone = DOMAIN map \ DOMAIN map'
     /\ gone # {} =>
          \/ last'.op = "set" /\ gone = {lru.order[1]}
          \/ last'.op = "delete" /\ gone = {last'.key}

(* C20: in a cache of capacity >= 1, whenever set or get calls access the *)
(* key is already in the tracker or the tracker holds fewer than capacity *)
(* keys, so access never drops a key; every key leaving the tracker       *)
(* leaves by the evict of set or the remove of delete, together with its  *)
(* mapping entry.                                                         *)
C20_ExplicitEvictionOnly == []C20_AccessNeverEvicts /\ [][C20_LeavesPaired]_vars

C20_Witness ==
  /\ capacity = MaxCapacity
  /\ Size = capacity
  /\ last.op = "get"
  /\ last.res = "Ok"
  /\ ~recording
=============================================================================
